---- MODULE Spec2Model ----
(***************************************************************************)
(* A model of src/main.rs: the generic Grid<T> container with its          *)
(* bounds-checked row-major addressing, the PlaneDir rotation algebra and  *)
(* the Display geometry (grid coordinate <-> screen point).                *)
(*                                                                         *)
(* Three specifications share the module, one per component:               *)
(*   SpecGrid     a Grid built by Grid::new, then any get/add/remove       *)
(*   SpecDir      calls of rotate, rotate_diff, clockwise, anticlockwise   *)
(*   SpecDisplay  a Display built by Display::new, then draw_empty_tile    *)
(*                and get_tile_coord_from_pos calls                        *)
(* The variables of the components a specification does not exercise stay  *)
(* at their idle values.                                                   *)
(*                                                                         *)
(* usize arithmetic of Grid is modelled without wrap-around: every width,  *)
(* height and coordinate of the model is far below 2^64.  i8 arithmetic of *)
(* PlaneDir keeps its width.  f32 arithmetic of Display is modelled as     *)
(* exact rational arithmetic (no rounding).                                *)
(***************************************************************************)
EXTENDS Integers, Sequences, FiniteSets, TLC

VARIABLES
    width,        \* Grid.width
    height,       \* Grid.height
    tile_array,   \* Grid.tile_array, slot i of the code is tile_array[i + 1]
    grid_call,    \* the last Grid call: [name, coord, val]
    grid_prev,    \* tile_array as it was when the last call started
    grid_out,     \* outcome of the last Grid call: [panicked, ret]
    last_write,   \* history: for each cell, what the last add/remove on it left
    overflow_checks, \* build profile: TRUE when integer overflow panics
    dir_call,     \* the last PlaneDir call: [name, self, n, other]
    dir_out,      \* its outcome: [panicked, ret]
    display,      \* the Display built by Display::new
    disp_call,    \* the last Display call: [name, coord, pos]
    disp_out      \* its outcome: the rectangle drawn or the Option<Coord>

gridVars == <<width, height, tile_array, grid_call, grid_prev, grid_out, last_write>>
dirVars == <<overflow_checks, dir_call, dir_out>>
dispVars == <<display, disp_call, disp_out>>
vars == <<gridVars, dirVars, dispVars>>

(***************************************************************************)
(* Bounds of the model.                                                    *)
(***************************************************************************)
\* A grid of the model has at most MaxCells slots (width * height).
MaxCells == 4
\* Coordinates passed to Grid calls range over 0..MaxCoord on each axis.
MaxCoord == 3
\* Tile counts of a Display range over 1..MaxTiles on each axis.
MaxTiles == 3
\* Screen sides are MaxScreen \div 2 or MaxScreen pixels; pointer positions
\* range over the integer points from -PosPad to MaxScreen + PosPad.
MaxScreen == 40
PosPad == 2

\* The values of T stored in a Grid<T> (test_add_and_get stores 7u8).
Vals == {7, 8}

(***************************************************************************)
(* Option<T>                                                               *)
(***************************************************************************)
None == <<>>
Some(v) == <<v>>

(***************************************************************************)
(* Coord                                                                   *)
(***************************************************************************)
Coord(x, y) == [x |-> x, y |-> y]
Coords == {Coord(x, y) : x \in 0..MaxCoord, y \in 0..MaxCoord}

(***************************************************************************)
(* Grid<T>                                                                 *)
(***************************************************************************)
\* Result<usize, ()>
Ok(i) == [ok |-> TRUE, i |-> i]
Err == [ok |-> FALSE, i |-> 0]

\* Outcome of a call: it panicked, or it returned ret.
Panic == [panicked |-> TRUE, ret |-> None]
Return(r) == [panicked |-> FALSE, ret |-> r]

\* Grid::new: width * height empty slots.
Grid_new(w, h) == [tile_array |-> [i \in 1..(w * h) |-> None], width |-> w, height |-> h]

\* Mutant: the bounds check is made on the linear index alone.
maybe_coord_to_index_by_index(w, h, coord) ==
    LET i == coord.x + (coord.y * w)
    IN  IF i >= w * h THEN Err ELSE Ok(i)

\* Mutant: the row stride is the height instead of the width.
maybe_coord_to_index_stride(w, h, coord) ==
    LET i == coord.x + (coord.y * h)
    IN  IF coord.x >= w \/ coord.y >= h THEN Err ELSE Ok(i)

\* Grid::maybe_coord_to_index
maybe_coord_to_index(w, h, coord) ==
    LET i == coord.x + (coord.y * w)
    IN  IF coord.x >= w \/ coord.y >= h THEN Err ELSE Ok(i)

\* Grid::coord_to_index: the index, or a panic ([panicked |-> TRUE]).
coord_to_index(w, h, coord) ==
    LET r == maybe_coord_to_index(w, h, coord)
    IN  IF r.ok THEN Return(r.i) ELSE Panic

\* Indexing the boxed slice: tile_array[i] panics when i is not below its length.
InSlice(arr, i) == i < Len(arr)

\* Grid::get: the slot's content, or a panic.
Grid_get(arr, w, h, coord) ==
    LET ix == coord_to_index(w, h, coord)
    IN  IF ix.panicked \/ ~InSlice(arr, ix.ret) THEN Panic
        ELSE Return(arr[ix.ret + 1])

\* Mutant: removing from an empty slot is an error.
Grid_remove_strict(arr, w, h, coord) ==
    LET ix == coord_to_index(w, h, coord)
    IN  IF ix.panicked \/ ~InSlice(arr, ix.ret) \/ arr[ix.ret + 1] = None
        THEN [arr |-> arr, out |-> Panic]
        ELSE [arr |-> [arr EXCEPT ![ix.ret + 1] = None], out |-> Return(None)]

\* Grid::remove: the slot array after the call and the call's outcome.
Grid_remove(arr, w, h, coord) ==
    LET ix == coord_to_index(w, h, coord)
    IN  IF ix.panicked \/ ~InSlice(arr, ix.ret)
        THEN [arr |-> arr, out |-> Panic]
        ELSE [arr |-> [arr EXCEPT ![ix.ret + 1] = None], out |-> Return(None)]

\* Mutant: an occupied slot keeps its occupant.
Grid_add_keep(arr, w, h, coord, t) ==
    LET ix == coord_to_index(w, h, coord)
    IN  IF ix.panicked \/ ~InSlice(arr, ix.ret)
        THEN [arr |-> arr, out |-> Panic]
        ELSE [arr |-> [arr EXCEPT ![ix.ret + 1] = IF @ = None THEN Some(t) ELSE @],
              out |-> Return(None)]

\* Grid::add
Grid_add(arr, w, h, coord, t) ==
    LET ix == coord_to_index(w, h, coord)
    IN  IF ix.panicked \/ ~InSlice(arr, ix.ret)
        THEN [arr |-> arr, out |-> Panic]
        ELSE [arr |-> [arr EXCEPT ![ix.ret + 1] = Some(t)], out |-> Return(None)]

GridCall(name, coord, val) == [name |-> name, coord |-> coord, val |-> val]

\* The grid's components idle: no call made yet.
GridIdle ==
    /\ grid_call = GridCall("new", Coord(0, 0), 0)
    /\ grid_prev = tile_array
    /\ grid_out = Return(None)

\* The coordinates (x, y) with x < width and y < height.
Cells(w, h) == {Coord(x, y) : x \in 0..(w - 1), y \in 0..(h - 1)}

InitGrid ==
    /\ \E w \in 0..MaxCells, h \in 0..MaxCells :
         /\ w * h <= MaxCells
         /\ width = Grid_new(w, h).width
         /\ height = Grid_new(w, h).height
         /\ tile_array = Grid_new(w, h).tile_array
    /\ last_write = [c \in Cells(width, height) |-> None]
    /\ GridIdle

\* The history after an add or remove on coord that leaves opt.
Written(coord, opt) ==
    IF coord \in DOMAIN last_write THEN [last_write EXCEPT ![coord] = opt] ELSE last_write

\* g.get(&coord)
Get(coord) ==
    /\ grid_call' = GridCall("get", coord, 0)
    /\ grid_prev' = tile_array
    /\ grid_out' = Grid_get(tile_array, width, height, coord)
    /\ UNCHANGED <<width, height, tile_array, last_write, dirVars, dispVars>>

\* g.remove(&coord)
Remove(coord) ==
    /\ grid_call' = GridCall("remove", coord, 0)
    /\ grid_prev' = tile_array
    /\ tile_array' = Grid_remove(tile_array, width, height, coord).arr
    /\ grid_out' = Grid_remove(tile_array, width, height, coord).out
    /\ last_write' = Written(coord, None)
    /\ UNCHANGED <<width, height, dirVars, dispVars>>

\* g.add(&coord, t)
Add(coord, t) ==
    /\ grid_call' = GridCall("add", coord, t)
    /\ grid_prev' = tile_array
    /\ tile_array' = Grid_add(tile_array, width, height, coord, t).arr
    /\ grid_out' = Grid_add(tile_array, width, height, coord, t).out
    /\ last_write' = Written(coord, Some(t))
    /\ UNCHANGED <<width, height, dirVars, dispVars>>

GridGet == \E coord \in Coords : Get(coord)
GridRemove == \E coord \in Coords : Remove(coord)
GridAdd == \E coord \in Coords, t \in Vals : Add(coord, t)

GridNext == GridGet \/ GridRemove \/ GridAdd

(***************************************************************************)
(* PlaneDir                                                                *)
(***************************************************************************)
PlaneDirs == {"North", "East", "South", "West"}

\* The range of i8, the type rotate and rotate_diff compute in.
I8_MIN == -128
I8_MAX == 127
I8 == I8_MIN..I8_MAX

\* `d as i8`: the discriminant of the #[repr(u8)] enum.
as_i8(d) ==
    CASE d = "North" -> 0
      [] d = "East" -> 1
      [] d = "South" -> 2
      [] d = "West" -> 3

\* TryFrom<u8> for PlaneDir: Ok(direction), or Err for any other value.
try_from(val) ==
    CASE val = 0 -> [ok |-> TRUE, dir |-> "North"]
      [] val = 1 -> [ok |-> TRUE, dir |-> "East"]
      [] val = 2 -> [ok |-> TRUE, dir |-> "South"]
      [] val = 3 -> [ok |-> TRUE, dir |-> "West"]
      [] OTHER -> [ok |-> FALSE, dir |-> "North"]

\* An i8 addition or subtraction whose mathematical result is v: a build with
\* overflow checks panics when v is not an i8, a build without wraps it.
I8Arith(v, checks) ==
    IF v \in I8 THEN Return(v)
    ELSE IF checks THEN Panic
    ELSE Return(((v - I8_MIN) % (I8_MAX - I8_MIN + 1)) + I8_MIN)

\* Mutant: the truncating remainder of the % operator, negative for a negative a.
rem_euclid_trunc(a, b) == IF a >= 0 THEN a % b ELSE 0 - ((0 - a) % b)

\* i8::rem_euclid with a positive divisor: the non-negative remainder.
rem_euclid(a, b) == a % b

\* `v as u8` of an i8: the value modulo 2^8.
as_u8(v) == v % (I8_MAX - I8_MIN + 1)

\* Mutant: the operands of the subtraction are swapped.
rotate_diff_swapped(self, other, checks) == I8Arith(as_i8(self) - as_i8(other), checks)

\* PlaneDir::rotate_diff
rotate_diff(self, other, checks) == I8Arith(as_i8(other) - as_i8(self), checks)

\* PlaneDir::rotate; expect("unreachable") panics on Err.
rotate(self, n, checks) ==
    LET sum == I8Arith(as_i8(self) + n, checks)
    IN  IF sum.panicked THEN Panic
        ELSE LET r == try_from(as_u8(rem_euclid(sum.ret, 4)))
             IN  IF r.ok THEN Return(r.dir) ELSE Panic

\* PlaneDir::clockwise
clockwise(self, checks) == rotate(self, 1, checks)

\* PlaneDir::anticlockwise
anticlockwise(self, checks) == rotate(self, -1, checks)

DirCall(name, self, n, other) == [name |-> name, self |-> self, n |-> n, other |-> other]

DirIdle ==
    /\ dir_call = DirCall("none", "North", 0, "North")
    /\ dir_out = Return(None)

\* The build profile is fixed before the program runs.
InitDir ==
    /\ overflow_checks \in BOOLEAN
    /\ DirIdle

Rotate ==
    \E d \in PlaneDirs, n \in I8 :
        /\ dir_call' = DirCall("rotate", d, n, d)
        /\ dir_out' = rotate(d, n, overflow_checks)
        /\ UNCHANGED <<overflow_checks, gridVars, dispVars>>

RotateDiff ==
    \E d \in PlaneDirs, other \in PlaneDirs :
        /\ dir_call' = DirCall("rotate_diff", d, 0, other)
        /\ dir_out' = rotate_diff(d, other, overflow_checks)
        /\ UNCHANGED <<overflow_checks, gridVars, dispVars>>

Clockwise ==
    \E d \in PlaneDirs :
        /\ dir_call' = DirCall("clockwise", d, 0, d)
        /\ dir_out' = clockwise(d, overflow_checks)
        /\ UNCHANGED <<overflow_checks, gridVars, dispVars>>

Anticlockwise ==
    \E d \in PlaneDirs :
        /\ dir_call' = DirCall("anticlockwise", d, 0, d)
        /\ dir_out' = anticlockwise(d, overflow_checks)
        /\ UNCHANGED <<overflow_checks, gridVars, dispVars>>

DirNext == Rotate \/ RotateDiff \/ Clockwise \/ Anticlockwise

(***************************************************************************)
(* f32 values, modelled as exact rationals <<numerator, denominator>> in   *)
(* lowest terms with a positive denominator.                               *)
(***************************************************************************)
RECURSIVE GCD(_, _)
GCD(a, b) == IF b = 0 THEN a ELSE GCD(b, a % b)

Abs(a) == IF a < 0 THEN -a ELSE a

Rat(n, d) ==
    LET g == GCD(Abs(n), Abs(d))
        s == IF d < 0 THEN -1 ELSE 1
    IN  <<(s * n) \div g, (s * d) \div g>>

FromInt(n) == <<n, 1>>
RAdd(a, b) == Rat(a[1] * b[2] + b[1] * a[2], a[2] * b[2])
RSub(a, b) == Rat(a[1] * b[2] - b[1] * a[2], a[2] * b[2])
RMul(a, b) == Rat(a[1] * b[1], a[2] * b[2])
RDiv(a, b) == Rat(a[1] * b[2], a[2] * b[1])
RLt(a, b) == a[1] * b[2] < b[1] * a[2]
RGe(a, b) == ~RLt(a, b)
\* f32::floor, as an integer
RFloor(a) == a[1] \div a[2]
\* `v as usize` of a float that holds the integer v: negative values saturate to 0.
as_usize(v) == IF v < 0 THEN 0 ELSE v

(***************************************************************************)
(* Display                                                                 *)
(***************************************************************************)
\* Display::TILE_MARGIN
TILE_MARGIN == 1

Rect(x, y, w, h) == [x |-> x, y |-> y, w |-> w, h |-> h]
Point(x, y) == [x |-> x, y |-> y]

\* macroquad's Rect::contains: the near edges are inside, the far edges are not.
contains(r, p) ==
    /\ RGe(p.x, r.x)
    /\ RLt(p.x, RAdd(r.x, r.w))
    /\ RLt(p.y, RAdd(r.y, r.h))
    /\ RGe(p.y, r.y)

\* Display::new
Display_new(swidth, sheight, x_tiles, y_tiles) ==
    LET margin_fraction == Rat(25, 1000)
        margin == RMul(swidth, margin_fraction)
        usable_fraction == RSub(FromInt(1), RMul(FromInt(2), margin_fraction))
        grid_width == RMul(swidth, usable_fraction)
    IN  [grid_rect |-> Rect(margin, margin, grid_width, RMul(sheight, usable_fraction)),
         tile_side_len |-> RDiv(grid_width, FromInt(x_tiles)),
         grid_size |-> <<x_tiles, y_tiles>>]

\* Display::draw_empty_tile: the rectangle handed to draw_rectangle.
draw_empty_tile(self, coord) ==
    Rect(RAdd(RAdd(self.grid_rect.x, RMul(FromInt(coord.x), self.tile_side_len)), FromInt(TILE_MARGIN)),
         RAdd(RAdd(self.grid_rect.y, RMul(FromInt(coord.y), self.tile_side_len)), FromInt(TILE_MARGIN)),
         RSub(self.tile_side_len, RMul(FromInt(TILE_MARGIN), FromInt(2))),
         RSub(self.tile_side_len, RMul(FromInt(TILE_MARGIN), FromInt(2))))

\* Mutant: no early return for a point outside grid_rect.
get_tile_coord_from_pos_unchecked(self, pos) ==
    LET x == as_usize(RFloor(RDiv(RSub(pos.x, self.grid_rect.x), self.tile_side_len)))
        y == as_usize(RFloor(RDiv(RSub(pos.y, self.grid_rect.y), self.tile_side_len)))
    IN  Some(Coord(x, y))

\* Display::get_tile_coord_from_pos
get_tile_coord_from_pos(self, pos) ==
    IF ~contains(self.grid_rect, pos) THEN None
    ELSE LET x == as_usize(RFloor(RDiv(RSub(pos.x, self.grid_rect.x), self.tile_side_len)))
             y == as_usize(RFloor(RDiv(RSub(pos.y, self.grid_rect.y), self.tile_side_len)))
         IN  Some(Coord(x, y))

ScreenSizes == {MaxScreen \div 2, MaxScreen}
Positions == (0 - PosPad)..(MaxScreen + PosPad)

DispCall(name, coord, pos) == [name |-> name, coord |-> coord, pos |-> pos]

DispIdle ==
    /\ disp_call = DispCall("new", Coord(0, 0), Point(FromInt(0), FromInt(0)))
    /\ disp_out = None

\* The screen size and tile counts main passes to Display::new.
main_x_tiles == 48
main_y_tiles == 32
main_swidth == 1280
main_sheight == 720

\* Display::new on a small screen, or as main calls it.
InitDisplay ==
    /\ \/ \E sw \in ScreenSizes, sh \in ScreenSizes, xt \in 1..MaxTiles, yt \in 1..MaxTiles :
            display = Display_new(FromInt(sw), FromInt(sh), xt, yt)
       \/ display = Display_new(FromInt(main_swidth), FromInt(main_sheight),
                                main_x_tiles, main_y_tiles)
    /\ DispIdle

\* draw_bg's loop body: draw_empty_tile for a coordinate within grid_size.
DrawEmptyTile ==
    /\ disp_call.name = "new"
    /\ \E x \in 0..(display.grid_size[1] - 1), y \in 0..(display.grid_size[2] - 1) :
         /\ disp_call' = DispCall("draw_empty_tile", Coord(x, y), Point(FromInt(0), FromInt(0)))
         /\ disp_out' = draw_empty_tile(display, Coord(x, y))
         /\ UNCHANGED <<display, gridVars, dirVars>>

\* main's mouse press: get_tile_coord_from_pos(mouse_position()).
GetTileCoordFromPos ==
    /\ disp_call.name = "new"
    /\ \E px \in Positions, py \in Positions :
         /\ disp_call' = DispCall("get_tile_coord_from_pos", Coord(0, 0), Point(FromInt(px), FromInt(py)))
         /\ disp_out' = get_tile_coord_from_pos(display, Point(FromInt(px), FromInt(py)))
         /\ UNCHANGED <<display, gridVars, dirVars>>

\* main's loop: the next frame builds the Display again, from the same screen
\* size and tile counts.
NextFrame ==
    /\ disp_call.name # "new"
    /\ disp_call' = DispCall("new", Coord(0, 0), Point(FromInt(0), FromInt(0)))
    /\ disp_out' = None
    /\ UNCHANGED <<display, gridVars, dirVars>>

DispNext == DrawEmptyTile \/ GetTileCoordFromPos \/ NextFrame

(***************************************************************************)
(* Specifications                                                          *)
(***************************************************************************)
\* Idle values of the components a specification does not exercise.
NoGrid ==
    /\ width = 0 /\ height = 0 /\ tile_array = <<>>
    /\ last_write = [c \in Cells(0, 0) |-> None]
    /\ GridIdle

NoDir ==
    /\ overflow_checks = FALSE
    /\ DirIdle

NoDisplay ==
    /\ display = Display_new(FromInt(MaxScreen), FromInt(MaxScreen), 1, 1)
    /\ DispIdle

GridInit == InitGrid /\ NoDir /\ NoDisplay
SpecGrid == GridInit /\ [][GridNext]_vars

DirInit == InitDir /\ NoGrid /\ NoDisplay
SpecDir == DirInit /\ [][DirNext]_vars

DispInit == InitDisplay /\ NoGrid /\ NoDir
SpecDisplay == DispInit /\ [][DispNext]_vars

(***************************************************************************)
(* Properties of Grid (checked under SpecGrid)                             *)
(***************************************************************************)
\* (x, y) is a valid coordinate of the grid: x < width and y < height.
Valid(coord) == coord.x < width /\ coord.y < height

\* What get(coord) returns (or that it panics) in the current state.
GetNow(coord) == Grid_get(tile_array, width, height, coord)
\* What get(coord) returned before the last call.
GetBefore(coord) == Grid_get(grid_prev, width, height, coord)

\* C1: after add(c, v) on a valid coordinate c, whatever the cell held before,
\* the call has not failed and get(c) returns Some(v).
C1_AddThenGet ==
    (grid_call.name = "add" /\ Valid(grid_call.coord)) =>
        /\ ~grid_out.panicked
        /\ GetNow(grid_call.coord) = Return(Some(grid_call.val))

\* An add that overwrote another value.
C1_Witness ==
    /\ grid_call.name = "add" /\ Valid(grid_call.coord)
    /\ ~GetBefore(grid_call.coord).panicked
    /\ GetBefore(grid_call.coord).ret # None
    /\ GetBefore(grid_call.coord).ret # Some(grid_call.val)
    /\ GetNow(grid_call.coord) = Return(Some(grid_call.val))

\* C2: get, add and remove on a coordinate with x >= width or y >= height
\* panic, return no cell and leave every slot as it was, also when the linear
\* index x + y * width lies inside the slot array.
C2_OutOfBounds ==
    (grid_call.name \in {"get", "add", "remove"} /\ ~Valid(grid_call.coord)) =>
        /\ grid_out = Panic
        /\ tile_array = grid_prev

\* An add at x >= width whose linear index is inside the slot array has panicked.
C2_Witness ==
    /\ grid_call.name = "add"
    /\ grid_call.coord.x >= width /\ grid_call.coord.y < height
    /\ grid_call.coord.x + (grid_call.coord.y * width) < Len(tile_array)
    /\ grid_out.panicked
    /\ tile_array = grid_prev

\* C9: remove on a valid coordinate never fails and leaves the cell empty;
\* on an already-empty cell it changes nothing; a second remove of the same
\* coordinate does not fail and leaves the grid as the first remove left it.
C9_RemoveIdempotent ==
    (grid_call.name = "remove" /\ Valid(grid_call.coord)) =>
        /\ ~grid_out.panicked
        /\ GetNow(grid_call.coord) = Return(None)
        /\ (GetBefore(grid_call.coord) = Return(None) => tile_array = grid_prev)
        /\ Grid_remove(tile_array, width, height, grid_call.coord)
             = [arr |-> tile_array, out |-> Return(None)]

\* A remove on a cell that was already empty, in a grid that holds a value.
C9_Witness ==
    /\ grid_call.name = "remove" /\ Valid(grid_call.coord)
    /\ GetBefore(grid_call.coord) = Return(None)
    /\ ~grid_out.panicked
    /\ \E i \in 1..Len(tile_array) : tile_array[i] # None

\* The row-major index is injective on the valid coordinates.
IndexInjective ==
    \A c1 \in Cells(width, height), c2 \in Cells(width, height) :
        c1 # c2 => coord_to_index(width, height, c1) # coord_to_index(width, height, c2)

C10_State ==
    /\ Len(tile_array) = width * height
    /\ IndexInjective
    /\ \A c \in Cells(width, height) : GetNow(c) = Return(last_write[c])
    /\ \A c \in Cells(width, height) :
         c # grid_call.coord => GetNow(c) = GetBefore(c)

C10_Fixed ==
    /\ width' = width
    /\ height' = height
    /\ Len(tile_array') = Len(tile_array)

\* C10: after any sequence of add and remove calls on a new grid, get(c) of
\* every valid c is what the last add or remove on c left (absent when there
\* was none), a call on c leaves every other valid cell unchanged, and width,
\* height and the number of slots (width * height) never change.
C10_Frame == []C10_State /\ [][C10_Fixed]_vars

\* A remove emptied an occupied cell while another cell keeps its value.
C10_Witness ==
    /\ grid_call.name = "remove" /\ Valid(grid_call.coord)
    /\ GetBefore(grid_call.coord).ret # None
    /\ GetNow(grid_call.coord) = Return(None)
    /\ \E c \in Cells(width, height) : c.y > 0 /\ c.x > 0 /\ GetNow(c).ret # None

(***************************************************************************)
(* Properties of PlaneDir (checked under SpecDir)                          *)
(***************************************************************************)
\* The direction of ordinal k, 0..3.
DirOf(k) == CHOOSE d \in PlaneDirs : as_i8(d) = k

\* C3: rotate_diff returns ordinal(other) - ordinal(self), a value in -3..3,
\* and rotating self by it gives other.
C3_RotateRoundTrip ==
    dir_call.name = "rotate_diff" =>
        /\ ~dir_out.panicked
        /\ dir_out.ret \in -3..3
        /\ dir_out.ret = as_i8(dir_call.other) - as_i8(dir_call.self)
        /\ rotate(dir_call.self, dir_out.ret, overflow_checks) = Return(dir_call.other)

\* rotate_diff from West to North: the most negative difference.
C3_Witness ==
    /\ dir_call.name = "rotate_diff"
    /\ dir_call.self = "West" /\ dir_call.other = "North"
    /\ dir_out = Return(-3)

\* North -> East -> South -> West -> North
ClockwiseOf(d) ==
    CASE d = "North" -> "East"
      [] d = "East" -> "South"
      [] d = "South" -> "West"
      [] d = "West" -> "North"

\* C4: clockwise follows North -> East -> South -> West -> North,
\* anticlockwise follows the inverse sequence, and each undoes the other.
C4_RotationCycle ==
    /\ dir_call.name = "clockwise" =>
         /\ dir_out = Return(ClockwiseOf(dir_call.self))
         /\ anticlockwise(dir_out.ret, overflow_checks) = Return(dir_call.self)
    /\ dir_call.name = "anticlockwise" =>
         /\ ~dir_out.panicked
         /\ dir_out.ret \in PlaneDirs
         /\ ClockwiseOf(dir_out.ret) = dir_call.self
         /\ clockwise(dir_out.ret, overflow_checks) = Return(dir_call.self)

\* North.anticlockwise() is West: the step that wraps below ordinal 0.
C4_Witness ==
    /\ dir_call.name = "anticlockwise"
    /\ dir_call.self = "North"
    /\ dir_out = Return("West")

\* C5: for every direction d and every i8 n, d.rotate(n) returns, without
\* failing, the direction of ordinal (ordinal(d) + n) mod 4, and it equals
\* d.rotate(n + 4).
C5_RotateTotal ==
    dir_call.name = "rotate" =>
        /\ dir_out = Return(DirOf((as_i8(dir_call.self) + dir_call.n) % 4))
        /\ (dir_call.n + 4 \in I8 =>
              rotate(dir_call.self, dir_call.n + 4, overflow_checks) = dir_out)

(***************************************************************************)
(* Properties of Display (checked under SpecDisplay)                       *)
(***************************************************************************)
\* C6: a coordinate returned by get_tile_coord_from_pos lies within grid_size.
C6_PickInGrid ==
    (disp_call.name = "get_tile_coord_from_pos" /\ disp_out # None) =>
        /\ disp_out[1].x < display.grid_size[1]
        /\ disp_out[1].y < display.grid_size[2]

\* The centre of a rectangle.
RectCenter(r) ==
    Point(RAdd(r.x, RDiv(r.w, FromInt(2))), RAdd(r.y, RDiv(r.h, FromInt(2))))

\* C7: the centre of the rectangle drawn for a coordinate c within grid_size
\* is mapped back to Some(c).
C7_CenterRoundTrip ==
    disp_call.name = "draw_empty_tile" =>
        get_tile_coord_from_pos(display, RectCenter(disp_out)) = Some(disp_call.coord)

\* p lies strictly outside r: before its origin or beyond origin + size, on
\* either axis.
StrictlyOutside(r, p) ==
    \/ RLt(p.x, r.x)
    \/ RLt(RAdd(r.x, r.w), p.x)
    \/ RLt(p.y, r.y)
    \/ RLt(RAdd(r.y, r.h), p.y)

\* C8: a point strictly outside grid_rect is mapped to None.
C8_OutsideIsNone ==
    (disp_call.name = "get_tile_coord_from_pos"
        /\ StrictlyOutside(display.grid_rect, disp_call.pos)) =>
        disp_out = None

\* A point beyond the far edge of grid_rect on the y axis, its x inside: None.
C8_Witness ==
    /\ disp_call.name = "get_tile_coord_from_pos"
    /\ disp_out = None
    /\ RGe(disp_call.pos.x, display.grid_rect.x)
    /\ RLt(disp_call.pos.x, RAdd(display.grid_rect.x, display.grid_rect.w))
    /\ RLt(RAdd(display.grid_rect.y, display.grid_rect.h), disp_call.pos.y)

====
